---- MODULE Spec2Model ----
(***************************************************************************)
(* The qq_avatar_meme plugin:                                              *)
(*   src/models.py           the avatar_descriptions table (the Store)     *)
(*   src/avatar_analyzer.py  AvatarAnalyzer (Fetcher, Describer,           *)
(*                           Orchestrator analyze_and_store)               *)
(*   src/plugin.py           MemeManager (the meme catalog) and the        *)
(*                           command/action surfaces                       *)
(*                                                                         *)
(* Python text (str, bytes) is a sequence of one-character strings, so     *)
(* that strip() and truthiness are computed, not assumed.  Python's None   *)
(* is None for scalars and NoneText where a text is expected.  The fixed   *)
(* messages of the source are Chinese; each is one token here, written in  *)
(* ASCII, with the source string in the comment beside it.                 *)
(*                                                                         *)
(* analyze_and_store is a coroutine.  It runs atomically between its       *)
(* suspension points, which are the HTTP request of _fetch_avatar          *)
(* (avatar_analyzer.py:131-134) and the model request of _analyze_avatar   *)
(* (avatar_analyzer.py:181).  person_api and the two functions of          *)
(* models.py are synchronous, so the cache check and the Store write       *)
(* never interleave with another coroutine.                                *)
(***************************************************************************)
EXTENDS Naturals, Sequences, FiniteSets, Bags, TLC

\* ------------------------------------------------------------- bounds
\* analyze_and_store coroutines suspended at the same time
MaxCalls == 2
\* the values time.time() takes during a run: 0 .. MaxClock
MaxClock == 1

\* ------------------------------------------------------ Python values
None == "None"
NoneText == <<"None">>
\* what an `except Exception` handler sees in place of a returned value
Raised == <<"Raised">>
WS == " "

\* Mutant: `is not None` in the place of the truth value
is_not_None(x) == x # NoneText

\* `if x:` / `if not x:` on an Optional[str] or Optional[bytes]
Truthy(x) == x # NoneText /\ x # <<>>

RECURSIVE lstrip(_)
lstrip(s) == IF s # <<>> /\ Head(s) = WS THEN lstrip(Tail(s)) ELSE s

RECURSIVE rstrip(_)
rstrip(s) ==
    IF s # <<>> /\ s[Len(s)] = WS THEN rstrip(SubSeq(s, 1, Len(s) - 1)) ELSE s

\* str.strip(), avatar_analyzer.py:189
strip(s) == rstrip(lstrip(s))

Has(trace, e) == \E i \in DOMAIN trace : trace[i] = e

\* ------------------------------------------------------ fixed strings
\* "无法获取用户头像" (avatar_analyzer.py:57)
MSG_AVATAR_UNAVAILABLE == <<"avatar unavailable">>
\* "头像分析失败" (avatar_analyzer.py:64)
MSG_ANALYSIS_FAILED == <<"analysis failed">>
\* "存储描述失败" (avatar_analyzer.py:69)
MSG_STORE_FAILED == <<"store failed">>
\* "使用默认头像或无法分析的头像图片" (avatar_analyzer.py:173, 192, 196)
DEFAULT_DESCRIPTION == <<"default or unanalyzable avatar">>

\* ------------------------------------------------------------- inputs
\* (platform, user_id) pairs analyze_and_store is called with
Targets == { <<"qq", "u1">>, <<"qq", "u2">>, <<"discord", "u1">> }

\* person_api.get_person_id(platform, user_id): the identity service maps
\* u1 to one person on both of its platforms and knows no mapping for u2.
get_person_id(platform, user_id) ==
    IF user_id = "u1" /\ platform \in {"qq", "discord"} THEN "p1" ELSE None

Persons == {"p1", "p2"}

\* what generate_response_for_image answers: nothing, the empty text, blank
\* text, text, text with blanks around it; or it raises
Responses ==
    { NoneText, <<>>, <<WS>>, <<"a">>, <<WS, "a", WS>>, Raised }

\* llm_api.get_available_models(): with or without "vision_general", or raising
ModelRegistries == {"vision", "empty", "raises"}

\* the HTTP exchange of _fetch_avatar: status 200 with a body, status 200 with
\* an empty body, another status, a network fault
HttpOutcomes == {"200", "200-empty", "404", "raises"}

\* what the environment does to the boundary calls of one step: nothing,
\* person_api.get_person_id raises, or the database raises
Faults == {"none", "identity", "database"}

\* ---------------------------------------------------------- the Store
VARIABLES
    rows,        \* table avatar_descriptions, in insertion order
    clock,       \* time.time()
    pending,     \* bag of suspended analyze_and_store coroutines
    step,        \* what the last step did: the operation, its arguments, the
                 \* outcome of every boundary call it made and, when a call
                 \* of analyze_and_store returned in it, what it returned
    last_write,  \* per person, the description of the last successful write
    package,     \* the environment: what importing meme_generator does
    get_memes,   \* plugin.py globals get_memes, load_memes, memes_dir: None
                 \* until _check_and_load_meme_generator binds the three
    _instance,   \* MemeManager._instance
    _memes,      \* MemeManager._memes, a dict: its items in insertion order
    _meme_list,  \* MemeManager._meme_list
    is_initialized,  \* MemeManager.is_initialized
    installs,    \* how many times the package-manager install step has run
    call         \* what the last operation on the catalog or the last
                 \* command/action did and returned

avatar_vars == <<rows, clock, pending, step, last_write>>
catalog_vars == <<package, get_memes, _instance, _memes, _meme_list,
                  is_initialized, installs, call>>
vars == <<rows, clock, pending, step, last_write, package, get_memes,
          _instance, _memes, _meme_list, is_initialized, installs, call>>

\* AvatarDescription.get_or_none(person_id == ...): index of the row, 0 if none
get_or_none(rs, person_id) ==
    LET hits == {i \in DOMAIN rs : rs[i].person_id = person_id}
    IN  IF hits = {} THEN 0 ELSE CHOOSE i \in hits : \A j \in hits : i <= j

\* models.py:38-52
get_avatar_description(rs, person_id, db_fault) ==
    IF db_fault THEN NoneText
    ELSE LET i == get_or_none(rs, person_id)
         IN  IF i # 0 THEN rs[i].head_description ELSE NoneText

\* AvatarDescription.create: person_id is declared unique (models.py:15), the
\* insert of a second row for a person raises
AvatarDescription_create(rs, rec) ==
    IF \E i \in DOMAIN rs : rs[i].person_id = rec.person_id
    THEN [raised |-> TRUE, rows |-> rs]
    ELSE [raised |-> FALSE, rows |-> Append(rs, rec)]

NewRecord(now, person_id, platform, user_id, description, avatar_url) ==
    [ person_id |-> person_id, platform |-> platform, user_id |-> user_id,
      head_description |-> description, analyzed_at |-> now,
      avatar_url |-> avatar_url ]

\* Mutant: the update branch does not refresh analyzed_at
set_keeps_timestamp(rs, now, person_id, platform, user_id, description, avatar_url, db_fault) ==
    IF db_fault THEN [ok |-> FALSE, rows |-> rs]
    ELSE
        LET i == get_or_none(rs, person_id) IN
        IF i # 0
        THEN [ ok |-> TRUE,
               rows |-> [rs EXCEPT ![i].head_description = description] ]
        ELSE [ ok |-> TRUE,
               rows |-> Append(rs, NewRecord(now, person_id, platform, user_id,
                                             description, avatar_url)) ]

\* Mutant: the update branch keeps the description it finds
set_keeps_first(rs, now, person_id, platform, user_id, description, avatar_url, db_fault) ==
    IF db_fault THEN [ok |-> FALSE, rows |-> rs]
    ELSE
        LET i == get_or_none(rs, person_id) IN
        IF i # 0
        THEN [ ok |-> TRUE,
               rows |-> [rs EXCEPT ![i].analyzed_at = now] ]
        ELSE [ ok |-> TRUE,
               rows |-> Append(rs, NewRecord(now, person_id, platform, user_id,
                                             description, avatar_url)) ]

\* Mutant: create() is called without head_description
set_forgets_description_on_create(rs, now, person_id, platform, user_id, description, avatar_url, db_fault) ==
    IF db_fault THEN [ok |-> FALSE, rows |-> rs]
    ELSE
        LET i == get_or_none(rs, person_id) IN
        IF i # 0
        THEN [ ok |-> TRUE,
               rows |-> [rs EXCEPT ![i].head_description = description,
                                   ![i].analyzed_at = now] ]
        ELSE [ ok |-> TRUE,
               rows |-> Append(rs, NewRecord(now, person_id, platform, user_id,
                                             NoneText, avatar_url)) ]

\* models.py:55-96.  db_fault: the database raises in get_or_none, save or
\* create; the handler of line 94 returns False and nothing was written.
set_avatar_description(rs, now, person_id, platform, user_id, description, avatar_url, db_fault) ==
    IF db_fault THEN [ok |-> FALSE, rows |-> rs]
    ELSE
        LET i == get_or_none(rs, person_id) IN
        IF i # 0
        THEN [ ok |-> TRUE,
               rows |-> [rs EXCEPT ![i].head_description = description,
                                   ![i].analyzed_at = now,
                                   ![i].avatar_url =
                                       IF avatar_url # None /\ avatar_url # ""
                                       THEN avatar_url ELSE @] ]
        ELSE
            LET c == AvatarDescription_create(
                        rs, NewRecord(now, person_id, platform, user_id,
                                      description, avatar_url))
            IN  [ok |-> ~c.raised, rows |-> c.rows]

\* ------------------------------------------------------- the Fetcher
\* The body the avatar endpoint answers with
AvatarBytes == <<"j", "p", "g">>

\* _fetch_avatar up to its first await (avatar_analyzer.py:122-132): TRUE when
\* the coroutine suspends on the HTTP request; every other platform returns
\* None at once (lines 123-125 and 138-140)
fetch_suspends(platform) == platform = "qq"

\* _fetch_avatar after the HTTP exchange (avatar_analyzer.py:132-144)
fetch_response(http) ==
    CASE http = "200" -> AvatarBytes
      [] http = "200-empty" -> <<>>
      [] OTHER -> NoneText

\* ------------------------------------------------------ the Describer
\* _analyze_avatar up to its await (avatar_analyzer.py:160-181): the model
\* request is issued only when the registry holds "vision_general"
describe_suspends(models) == models = "vision"

\* _analyze_avatar when it returns without a request: no "vision_general"
\* (line 173) or get_available_models raised (line 196)
describe_no_request(models) == DEFAULT_DESCRIPTION

\* Mutant: what the docstring of _analyze_avatar announces, None on failure
describe_response_none_on_failure(response) ==
    IF response = Raised THEN NoneText
    ELSE IF Truthy(response) THEN strip(response)
    ELSE NoneText

\* _analyze_avatar after the model request (avatar_analyzer.py:181-196)
describe_response(response) ==
    IF response = Raised THEN DEFAULT_DESCRIPTION
    ELSE IF Truthy(response) THEN strip(response)
    ELSE DEFAULT_DESCRIPTION

\* --------------------------------------------------- the Orchestrator
\* str(e) of the handler at avatar_analyzer.py:74-76
MSG_EXCEPTION == <<"str(e)">>

\* Mutant: the table is queried with the user_id, not the person_id
_get_existing_by_user_id(rs, user_id, platform, fault) ==
    [ value |-> get_avatar_description(rs, user_id, FALSE),
      events |-> <<"resolve:ok", "get:miss">> ]

\* avatar_analyzer.py:78-106.  value: what it returns
_get_existing_description(rs, user_id, platform, fault) ==
    IF fault = "identity"
    THEN [value |-> NoneText, events |-> <<"resolve:raises">>]
    ELSE
        LET person_id == get_person_id(platform, user_id) IN
        IF person_id = None
        THEN [value |-> NoneText, events |-> <<"resolve:none">>]
        ELSE
            LET description == get_avatar_description(rs, person_id,
                                                      fault = "database")
            IN  [ value |-> description,
                  events |-> << "resolve:ok",
                                IF fault = "database" THEN "get:raises"
                                ELSE IF Truthy(description) THEN "get:hit"
                                ELSE "get:miss" >> ]

\* Mutant: force_update is not looked at
cache_check_ignores_force(rs, user_id, platform, force_update, fault) ==
    _get_existing_description(rs, user_id, platform, fault)

\* The cache check of analyze_and_store (avatar_analyzer.py:48-50): the value
\* `existing` is bound to, NoneText when the check is skipped
cache_check(rs, user_id, platform, force_update, fault) ==
    IF force_update
    THEN [value |-> NoneText, events |-> <<>>]
    ELSE _get_existing_description(rs, user_id, platform, fault)

\* Mutant: the result of the Fetcher is not checked
stops_never(avatar_data) == FALSE

\* `if not avatar_data` (avatar_analyzer.py:56)
stops_after_fetch(avatar_data) == ~Truthy(avatar_data)

\* what the Fetcher returned, as the call's trace records it
FetchEvent(avatar_data) ==
    IF avatar_data = NoneText THEN "fetch:none"
    ELSE IF avatar_data = <<>> THEN "fetch:empty" ELSE "fetch:bytes"

\* avatar_analyzer.py:198-236.  ret: what it returns; wrote: whether the
\* upsert was called and reported success
_store_description(rs, now, user_id, platform, description, fault) ==
    IF fault = "identity"
    THEN [ ret |-> FALSE, rows |-> rs, wrote |-> FALSE,
           events |-> <<"resolve:raises">> ]
    ELSE
        LET person_id == get_person_id(platform, user_id) IN
        IF person_id = None
        THEN [ ret |-> FALSE, rows |-> rs, wrote |-> FALSE,
               events |-> <<"resolve:none">> ]
        ELSE
            LET w == set_avatar_description(rs, now, person_id, platform,
                                            user_id, description, None,
                                            fault = "database")
            IN  [ ret |-> TRUE, rows |-> w.rows, wrote |-> w.ok,
                  events |-> << "resolve:ok",
                                IF ~w.ok THEN "set:failed"
                                ELSE IF get_or_none(rs, person_id) # 0
                                     THEN "set:updated" ELSE "set:created" >> ]

\* Mutant: the fallback description is returned but not cached
after_description_skips_fallback(rs, now, user_id, platform, description, fault) ==
    IF description = Raised
    THEN [ ok |-> FALSE, msg |-> MSG_EXCEPTION, rows |-> rs,
           trace |-> <<>>, wrote |-> FALSE, events |-> <<>> ]
    ELSE IF ~Truthy(description)
    THEN [ ok |-> FALSE, msg |-> MSG_ANALYSIS_FAILED, rows |-> rs,
           trace |-> <<>>, wrote |-> FALSE, events |-> <<>> ]
    ELSE IF description = DEFAULT_DESCRIPTION
    THEN [ ok |-> TRUE, msg |-> description, rows |-> rs,
           trace |-> <<>>, wrote |-> FALSE, events |-> <<>> ]
    ELSE
        LET s == _store_description(rs, now, user_id, platform, description,
                                    fault)
        IN  [ ok |-> s.ret,
              msg |-> IF s.ret THEN description ELSE MSG_STORE_FAILED,
              rows |-> s.rows,
              trace |-> <<"store">>,
              wrote |-> s.wrote, events |-> s.events ]

\* analyze_and_store from the Describer's return to its own
\* (avatar_analyzer.py:59-76); a fault inside the try block reaches the
\* handler of line 74
after_description(rs, now, user_id, platform, description, fault) ==
    IF description = Raised
    THEN [ ok |-> FALSE, msg |-> MSG_EXCEPTION, rows |-> rs,
           trace |-> <<>>, wrote |-> FALSE, events |-> <<>> ]
    ELSE IF ~Truthy(description)
    THEN [ ok |-> FALSE, msg |-> MSG_ANALYSIS_FAILED, rows |-> rs,
           trace |-> <<>>, wrote |-> FALSE, events |-> <<>> ]
    ELSE
        LET s == _store_description(rs, now, user_id, platform, description,
                                    fault)
        IN  [ ok |-> s.ret,
              msg |-> IF s.ret THEN description ELSE MSG_STORE_FAILED,
              rows |-> s.rows,
              trace |-> <<"store">>,
              wrote |-> s.wrote, events |-> s.events ]

\* ------------------------------------------------------------ actions
\* A suspended coroutine of analyze_and_store.  trace: the steps of the
\* pipeline it has gone through so far, in order ("lookup": the cache check
\* of lines 48-52; "fetch": _fetch_avatar is called, followed by what it
\* returned; "describe": _analyze_avatar is called; "request": the model
\* request is issued; "store": _store_description is called); rival: whether
\* another forced call of the same person completed a Store write while this
\* one was suspended
Frame(user_id, platform, force_update, pc, trace) ==
    [ user_id |-> user_id, platform |-> platform, force_update |-> force_update,
      pc |-> pc, trace |-> trace, rival |-> FALSE ]

\* A step of the call (user_id, platform, force_update) in which it does not
\* return
StepOf(act, user_id, platform, force_update, rival, events) ==
    [ act |-> act, user_id |-> user_id, platform |-> platform,
      force_update |-> force_update,
      person_id |-> get_person_id(platform, user_id),
      description |-> NoneText, rival |-> rival, events |-> events,
      returned |-> FALSE, raised |-> FALSE, ok |-> FALSE, msg |-> NoneText,
      trace |-> <<>> ]

\* The step in which the call returns (ok, msg), trace being the whole call's
\* and description what the Describer returned in this step, if it did
ReturnOf(act, user_id, platform, force_update, rival, events, description, ok, msg, trace) ==
    [ StepOf(act, user_id, platform, force_update, rival, events)
        EXCEPT !.description = description, !.returned = TRUE,
               !.ok = ok, !.msg = msg, !.trace = trace ]

\* The step in which a fault leaves analyze_and_store: lines 47-57 stand
\* outside the try block of line 59
RaiseOf(act, user_id, platform, force_update, rival, events, trace) ==
    [ StepOf(act, user_id, platform, force_update, rival, events)
        EXCEPT !.raised = TRUE, !.trace = trace ]

\* plugin.py:72-85 at import time, in the environment p; no operation yet
CatalogInit(p) ==
    /\ package = p
    /\ get_memes = None
    /\ _instance = None
    /\ _memes = <<>>
    /\ _meme_list = <<>>
    /\ is_initialized = FALSE
    /\ installs = 0
    /\ call = [op |-> "Init"]

AvatarInit ==
    /\ rows = <<>>
    /\ clock = 0
    /\ pending = EmptyBag
    /\ step = StepOf("Init", None, None, FALSE, FALSE, <<>>)
    /\ last_write = [p \in Persons |-> NoneText]

Init == AvatarInit /\ CatalogInit("absent")

\* A forced call of person_id wrote: every other suspended forced call of that
\* person has now seen a rival write during its own run
MarkRivals(bag, person_id) ==
    BagOfAll(LAMBDA g :
                 IF g.force_update /\ get_person_id(g.platform, g.user_id) = person_id
                 THEN [g EXCEPT !.rival = TRUE] ELSE g,
             bag)

\* analyze_and_store from its entry to the first await or the first return
\* (avatar_analyzer.py:47-57, with _fetch_avatar 122-132)
Start(user_id, platform, force_update, fault) ==
    LET pre == cache_check(rows, user_id, platform, force_update, fault)
        trace == IF force_update THEN <<>> ELSE <<"lookup">>
    IN  IF pre.value = Raised
        THEN /\ step' = RaiseOf("Start", user_id, platform, force_update, FALSE,
                                pre.events, trace)
             /\ UNCHANGED <<rows, clock, pending, last_write>>
        ELSE IF Truthy(pre.value)
        THEN /\ step' = ReturnOf("Start", user_id, platform, force_update, FALSE,
                                 pre.events, NoneText, TRUE, pre.value, trace)
             /\ UNCHANGED <<rows, clock, pending, last_write>>
        ELSE IF fetch_suspends(platform)
        THEN /\ BagCardinality(pending) < MaxCalls
             /\ pending' = pending (+) SetToBag({
                    Frame(user_id, platform, force_update, "fetching",
                          trace \o <<"fetch">>) })
             /\ step' = StepOf("Start", user_id, platform, force_update, FALSE,
                               pre.events \o <<"fetch:suspended">>)
             /\ UNCHANGED <<rows, clock, last_write>>
        ELSE /\ step' = ReturnOf("Start", user_id, platform, force_update, FALSE,
                                 pre.events \o <<"fetch:unsupported">>, NoneText,
                                 FALSE, MSG_AVATAR_UNAVAILABLE,
                                 trace \o <<"fetch", "fetch:none">>)
             /\ UNCHANGED <<rows, clock, pending, last_write>>

\* analyze_and_store from the Describer's return to its own return
\* (avatar_analyzer.py:63-76): f the coroutine, rest the other suspended ones
Complete(act, f, rest, trace, description, events, fault) ==
    LET a == after_description(rows, clock, f.user_id, f.platform, description,
                               fault)
        person_id == get_person_id(f.platform, f.user_id)
    IN  /\ rows' = a.rows
        /\ last_write' = IF a.wrote
                         THEN [last_write EXCEPT ![person_id] = description]
                         ELSE last_write
        /\ pending' = IF a.wrote /\ f.force_update
                      THEN MarkRivals(rest, person_id) ELSE rest
        /\ step' = ReturnOf(act, f.user_id, f.platform, f.force_update, f.rival,
                            events \o a.events, description, a.ok, a.msg,
                            trace \o a.trace)
        /\ UNCHANGED clock

\* The HTTP exchange ends: _fetch_avatar returns (avatar_analyzer.py:132-144),
\* analyze_and_store goes on to the Describer's await or to its return
\* (lines 56-76, with _analyze_avatar 160-181)
FetchDone(f, http, models, fault) ==
    /\ BagIn(f, pending)
    /\ f.pc = "fetching"
    /\ LET avatar_data == fetch_response(http)
           rest == pending (-) SetToBag({f})
           trace == f.trace \o <<FetchEvent(avatar_data)>>
       IN  IF avatar_data = Raised
           THEN /\ pending' = rest
                /\ step' = RaiseOf("FetchDone", f.user_id, f.platform,
                                   f.force_update, f.rival, <<"http:" \o http>>,
                                   f.trace)
                /\ UNCHANGED <<rows, clock, last_write>>
           ELSE IF stops_after_fetch(avatar_data)
           THEN /\ pending' = rest
                /\ step' = ReturnOf("FetchDone", f.user_id, f.platform,
                                    f.force_update, f.rival, <<"http:" \o http>>,
                                    NoneText, FALSE, MSG_AVATAR_UNAVAILABLE,
                                    trace)
                /\ UNCHANGED <<rows, clock, last_write>>
           ELSE IF describe_suspends(models)
           THEN /\ pending' = rest (+) SetToBag({
                       [f EXCEPT !.pc = "analyzing",
                                 !.trace = trace \o <<"describe", "request">>] })
                /\ step' = StepOf("FetchDone", f.user_id, f.platform,
                                  f.force_update, f.rival,
                                  << "http:" \o http, "models:" \o models,
                                     "request:suspended" >>)
                /\ UNCHANGED <<rows, clock, last_write>>
           ELSE Complete("FetchDone", f, rest, trace \o <<"describe">>,
                         describe_no_request(models),
                         <<"http:" \o http, "models:" \o models>>, fault)

\* Mutant: a model request that raised is issued a second time
AnalyzeDone_retries(f, response, fault) ==
    /\ BagIn(f, pending)
    /\ f.pc = "analyzing"
    /\ IF response = Raised /\ f.trace[Len(f.trace)] # "retry"
       THEN /\ pending' = (pending (-) SetToBag({f})) (+) SetToBag({
                   [f EXCEPT !.trace = f.trace \o <<"request", "retry">>] })
            /\ step' = StepOf("AnalyzeDone", f.user_id, f.platform,
                              f.force_update, f.rival, <<"response:raises">>)
            /\ UNCHANGED <<rows, clock, last_write>>
       ELSE Complete("AnalyzeDone", f, pending (-) SetToBag({f}), f.trace,
                     describe_response(response),
                     << IF response = Raised THEN "response:raises"
                        ELSE IF Truthy(response) THEN "response:text"
                        ELSE "response:falsy" >>,
                     fault)

\* The model request ends: _analyze_avatar returns (avatar_analyzer.py:181-196)
\* and analyze_and_store runs to its return (lines 63-76)
AnalyzeDone(f, response, fault) ==
    /\ BagIn(f, pending)
    /\ f.pc = "analyzing"
    /\ Complete("AnalyzeDone", f, pending (-) SetToBag({f}), f.trace,
                describe_response(response),
                << IF response = Raised THEN "response:raises"
                   ELSE IF Truthy(response) THEN "response:text"
                   ELSE "response:falsy" >>,
                fault)

\* time passes
Tick ==
    /\ clock < MaxClock
    /\ clock' = clock + 1
    /\ step' = StepOf("Tick", None, None, FALSE, FALSE, <<>>)
    /\ UNCHANGED <<rows, pending, last_write>>

\* what execute returned: (ok, msg), or a fault left it
Returned(op, ok, msg) ==
    [op |-> op, returned |-> TRUE, raised |-> FALSE, ok |-> ok, msg |-> msg]
Faulted(op) ==
    [op |-> op, returned |-> FALSE, raised |-> TRUE, ok |-> FALSE, msg |-> None]

\* AnalyzeAvatarAction.execute around the analyze_and_store call whose last
\* step is st (plugin.py:326-339)
AnalyzeAvatarAction_execute(st) ==
    IF st.raised THEN Returned("AnalyzeAvatarAction", FALSE, "analysis error") \* 分析失败: e
    ELSE IF ~st.returned
    THEN [op |-> "AnalyzeAvatarAction", returned |-> FALSE, raised |-> FALSE,
          ok |-> FALSE, msg |-> None]
    ELSE IF st.ok THEN Returned("AnalyzeAvatarAction", TRUE, "analysis done") \* 头像分析完成
    ELSE Returned("AnalyzeAvatarAction", FALSE, "analysis failed")      \* 头像分析失败

\* the step of analyze_and_store that has just been taken belongs to an
\* AnalyzeAvatarAction.execute
AnalyzeAvatarSurface ==
    /\ call' = AnalyzeAvatarAction_execute(step')
    /\ UNCHANGED <<package, get_memes, _instance, _memes, _meme_list,
                   is_initialized, installs>>

\* A fault is drawn only for a step that reaches the boundary it strikes
Next ==
    \/ \E t \in Targets, force_update \in BOOLEAN :
       \E fault \in IF force_update THEN {"none"} ELSE Faults :
           Start(t[2], t[1], force_update, fault) /\ AnalyzeAvatarSurface
    \/ \E f \in BagToSet(pending), http \in HttpOutcomes :
       \E models \in IF Truthy(fetch_response(http))
                     THEN ModelRegistries ELSE {"vision"} :
       \E fault \in IF Truthy(fetch_response(http)) /\ ~describe_suspends(models)
                    THEN Faults ELSE {"none"} :
           FetchDone(f, http, models, fault) /\ AnalyzeAvatarSurface
    \/ \E f \in BagToSet(pending), response \in Responses :
       \E fault \in IF Truthy(describe_response(response))
                    THEN Faults ELSE {"none"} :
           AnalyzeDone(f, response, fault) /\ AnalyzeAvatarSurface
    \/ Tick /\ AnalyzeAvatarSurface

Spec == Init /\ [][Next]_vars

\* ------------------------------------------- the Store called directly
\* what set_avatar_description is called with: (person_id, user_id),
\* description, avatar_url
StoreKeys == { <<"p1", "u1">>, <<"p2", "u2">> }
StoreDescriptions == { <<"a">>, DEFAULT_DESCRIPTION, NoneText }
StoreUrls == {None, "url"}

\* One call of set_avatar_description (models.py:55-96)
Upsert(person_id, platform, user_id, description, avatar_url, db_fault) ==
    LET w == set_avatar_description(rows, clock, person_id, platform, user_id,
                                    description, avatar_url, db_fault)
    IN  /\ rows' = w.rows
        /\ last_write' = IF w.ok
                         THEN [last_write EXCEPT ![person_id] = description]
                         ELSE last_write
        /\ step' = [ StepOf("set_avatar_description", user_id, platform, FALSE,
                            FALSE,
                            << IF ~w.ok THEN "set:failed"
                               ELSE IF get_or_none(rows, person_id) # 0
                                    THEN "set:updated" ELSE "set:created" >>)
                       EXCEPT !.person_id = person_id,
                              !.description = description, !.ok = w.ok ]
        /\ UNCHANGED <<clock, pending>>

NextStore ==
    \/ \E k \in StoreKeys, description \in StoreDescriptions,
          avatar_url \in StoreUrls, db_fault \in BOOLEAN :
           Upsert(k[1], "qq", k[2], description, avatar_url, db_fault)
           /\ UNCHANGED catalog_vars
    \/ Tick /\ UNCHANGED catalog_vars

SpecStore == Init /\ [][NextStore]_vars

\* ===================================================== the meme catalog
\* src/plugin.py: check_and_install_dependency, MemeManager and the four
\* command/action surfaces.  Nothing in MemeManager awaits (generate is a
\* coroutine without an await), so each of its operations is one step.

\* ------------------------------------------------------------- bounds
\* runs of the install step after which no further first load is followed
MaxInstalls == 2

\* ------------------------------------------------------------ str
\* str.lower() on the letters that occur
LowerOf ==
    [ c \in {"D", "O", "G", "P", "U"} |->
        CASE c = "D" -> "d" [] c = "O" -> "o" [] c = "G" -> "g"
          [] c = "P" -> "p" [] c = "U" -> "u" ]

lower(s) == [i \in DOMAIN s |-> IF s[i] \in DOMAIN LowerOf THEN LowerOf[s[i]] ELSE s[i]]

\* `a in b` for two str
Contains(a, b) ==
    \E i \in 0..(Len(b) - Len(a)) : SubSeq(b, i + 1, i + Len(a)) = a

\* ------------------------------------------------------ templates
\* a keyword that is not a str: keyword.lower() raises (plugin.py:110)
BadKeyword == <<"<not a str>">>

doge == [ key |-> <<"d", "o", "g", "e">>,
          keywords |-> << <<"d", "o", "g">>,
                          <<"f", "u", "n", "n", "y", "_", "d", "o", "g">> >> ]
cat_meme == [ key |-> <<"c", "a", "t", "_", "m", "e", "m", "e">>,
              keywords |-> << <<"c", "a", "t">> >> ]
\* a key and a keyword with capital letters
Dog == [ key |-> <<"D", "o", "g">>, keywords |-> << <<"P", "U", "P">> >> ]
hotdog == [ key |-> <<"h", "o", "t", "d", "o", "g">>, keywords |-> <<>> ]
\* two templates that meet on the index entry "dog"
dog == [ key |-> <<"d", "o", "g">>, keywords |-> << <<"p", "u", "p">> >> ]
cat == [ key |-> <<"c", "a", "t">>, keywords |-> << <<"d", "o", "g">> >> ]
\* a template whose second keyword is not a str
bad == [ key |-> <<"b", "a", "d">>, keywords |-> << <<"b">>, BadKeyword >> ]

\* what get_memes() may return (plugin.py:105)
Libraries ==
    { <<>>, <<doge, cat_meme>>, <<Dog, hotdog>>, <<hotdog, dog, cat>>,
      <<doge, bad>> }

\* the arguments of find_meme
Queries ==
    { <<"d", "o", "g">>, <<"D", "O", "G">>, <<"D", "o", "g">>, <<"d", "o">>,
      <<"x", "y", "z">>, <<"d", "o", "g", "e">>, <<"c", "a", "t">>,
      <<"p", "u", "p">>, <<"P", "U", "P">>,
      <<"c", "a", "t", "_", "m", "e", "m", "e">>,
      <<"f", "u", "n", "n", "y", "_", "d", "o", "g">>,
      <<"h", "o", "t", "d", "o", "g">> }

\* ------------------------------------------------------ the index
\* d[k] = v on a dict kept as the sequence of its items: an existing key
\* keeps its place (plugin.py:108, 110)
dict_set(d, k, v) ==
    IF \E i \in DOMAIN d : d[i][1] = k
    THEN [i \in DOMAIN d |-> IF d[i][1] = k THEN <<k, v>> ELSE d[i]]
    ELSE Append(d, <<k, v>>)

\* The inner loop of _load_memes over meme.keywords[n..] (plugin.py:109-110)
RECURSIVE index_keywords(_, _, _)
index_keywords(d, meme, n) ==
    IF n > Len(meme.keywords) THEN [memes |-> d, raised |-> FALSE]
    ELSE IF meme.keywords[n] = BadKeyword THEN [memes |-> d, raised |-> TRUE]
    ELSE index_keywords(dict_set(d, lower(meme.keywords[n]), meme), meme, n + 1)

\* The loop of _load_memes over all_memes[n..] (plugin.py:107-110)
RECURSIVE index_memes(_, _, _)
index_memes(d, all_memes, n) ==
    IF n > Len(all_memes) THEN [memes |-> d, raised |-> FALSE]
    ELSE LET one == index_keywords(dict_set(d, all_memes[n].key, all_memes[n]),
                                   all_memes[n], 1)
         IN  IF one.raised THEN one
             ELSE index_memes(one.memes, all_memes, n + 1)

\* a template or None: <<t>> or <<>>
NoMeme == <<>>

\* index of the first item of d, in dict order, whose key contains k; 0 if none
first_containing(d, k) ==
    IF \E i \in DOMAIN d : Contains(k, d[i][1])
    THEN CHOOSE i \in DOMAIN d :
             /\ Contains(k, d[i][1])
             /\ \A j \in 1..(i - 1) : ~Contains(k, d[j][1])
    ELSE 0

\* Mutant: is_initialized is not looked at
find_meme_unchecked(d, initialized, key) ==
    LET key_lower == lower(key) IN
    IF \E i \in DOMAIN d : d[i][1] = key_lower
    THEN <<d[CHOOSE i \in DOMAIN d : d[i][1] = key_lower][2]>>
    ELSE IF first_containing(d, key_lower) # 0
    THEN <<d[first_containing(d, key_lower)][2]>>
    ELSE NoMeme

\* Mutant: no substring scan
find_meme_exact_only(d, initialized, key) ==
    IF ~initialized THEN NoMeme
    ELSE LET key_lower == lower(key) IN
         IF \E i \in DOMAIN d : d[i][1] = key_lower
         THEN <<d[CHOOSE i \in DOMAIN d : d[i][1] = key_lower][2]>>
         ELSE NoMeme

\* Mutant: the query is looked up as it is typed
find_meme_as_typed(d, initialized, key) ==
    IF ~initialized THEN NoMeme
    ELSE IF \E i \in DOMAIN d : d[i][1] = key
    THEN <<d[CHOOSE i \in DOMAIN d : d[i][1] = key][2]>>
    ELSE IF first_containing(d, key) # 0
    THEN <<d[first_containing(d, key)][2]>>
    ELSE NoMeme

\* MemeManager.find_meme (plugin.py:118-127)
find_meme(d, initialized, key) ==
    IF ~initialized THEN NoMeme
    ELSE LET key_lower == lower(key) IN
         IF \E i \in DOMAIN d : d[i][1] = key_lower
         THEN <<d[CHOOSE i \in DOMAIN d : d[i][1] = key_lower][2]>>
         ELSE IF first_containing(d, key_lower) # 0
         THEN <<d[first_containing(d, key_lower)][2]>>
         ELSE NoMeme

\* MemeManager.get_all_memes (plugin.py:129-130)
get_all_memes(meme_list, initialized) == IF initialized THEN meme_list ELSE <<>>

\* MemeManager.get_random_meme (plugin.py:132-135): the templates
\* random.choice may return, none when it returns None
get_random_meme(meme_list, initialized) ==
    IF ~initialized \/ meme_list = <<>> THEN {}
    ELSE {meme_list[i] : i \in DOMAIN meme_list}

\* ------------------------------------------------ the environment
\* What `import meme_generator` does: it succeeds ("present"), raises
\* ImportError ("absent") or raises another exception ("broken")
Packages == {"present", "absent", "broken"}
\* The install step: subprocess.check_call returns, raises CalledProcessError,
\* or raises another exception (plugin.py:46-68)
InstallOutcomes == {"ok", "CalledProcessError", "Exception"}
\* load_memes(memes_dir()) (plugin.py:104)
LoadOutcomes == {"ok", "raises"}

\* the catalog as the operations below leave it, with what they did
CatalogNow ==
    [ package |-> package, get_memes |-> get_memes, instance |-> _instance,
      memes |-> _memes, meme_list |-> _meme_list,
      is_initialized |-> is_initialized, installs |-> installs,
      raised |-> FALSE, ret |-> TRUE, loaded |-> FALSE, installed |-> FALSE ]

\* Mutant: the pip command runs after the uv command
check_and_install_with_both(c, install, after) ==
    IF c.package = "present" THEN [c EXCEPT !.ret = TRUE]
    ELSE IF c.package = "broken" THEN [c EXCEPT !.raised = TRUE]
    ELSE [c EXCEPT !.installs = @ + 2, !.installed = TRUE,
                   !.ret = (install = "ok"),
                   !.package = IF install = "ok" THEN after ELSE @]

\* check_and_install_dependency (plugin.py:24-68); after: what importing
\* does once the install step has returned
check_and_install_dependency(c, install, after) ==
    IF c.package = "present" THEN [c EXCEPT !.ret = TRUE]
    ELSE IF c.package = "broken" THEN [c EXCEPT !.raised = TRUE]
    ELSE [c EXCEPT !.installs = @ + 1, !.installed = TRUE,
                   !.ret = (install = "ok"),
                   !.package = IF install = "ok" THEN after ELSE @]

\* the three imports of lines 148-154 and 160-166
import_meme_generator(c) ==
    IF c.package = "present" THEN [c EXCEPT !.get_memes = "bound", !.ret = TRUE]
    ELSE IF c.package = "absent" THEN [c EXCEPT !.ret = FALSE]
    ELSE [c EXCEPT !.raised = TRUE]

\* MemeManager._check_and_load_meme_generator (plugin.py:137-170)
_check_and_load_meme_generator(c, install, after) ==
    IF c.get_memes # None THEN [c EXCEPT !.ret = TRUE]
    ELSE LET first == import_meme_generator(c) IN
         IF first.raised \/ first.ret THEN first
         ELSE LET dep == check_and_install_dependency(c, install, after) IN
              IF dep.raised \/ ~dep.ret THEN dep
              ELSE import_meme_generator(dep)

\* MemeManager._load_memes (plugin.py:97-116)
_load_memes(c, install, after, load, lib) ==
    LET dep == [ _check_and_load_meme_generator(c, install, after)
                   EXCEPT !.loaded = TRUE ]
    IN  IF dep.raised \/ ~dep.ret THEN dep
        ELSE IF load = "raises" THEN dep
        ELSE LET ix == index_memes(dep.memes, lib, 1) IN
             IF ix.raised THEN [dep EXCEPT !.memes = ix.memes]
             ELSE [dep EXCEPT !.memes = ix.memes, !.meme_list = lib,
                              !.is_initialized = TRUE]

\* Mutant: the instance is built at every call
get_instance_uncached(c, install, after, load, lib) ==
    LET made == IF c.is_initialized THEN c
                ELSE _load_memes(c, install, after, load, lib)
    IN  IF made.raised THEN made ELSE [made EXCEPT !.instance = "MemeManager"]

\* MemeManager.get_instance with __init__ (plugin.py:87-95)
get_instance(c, install, after, load, lib) ==
    IF c.instance # None THEN c
    ELSE LET made == IF c.is_initialized THEN c
                     ELSE _load_memes(c, install, after, load, lib)
         IN  IF made.raised THEN made
             ELSE [made EXCEPT !.instance = "MemeManager"]

\* the renderer of a template: it returns a BytesIO, returns None, returns
\* an object that is not a BytesIO, or raises
RendererOutcomes == {"BytesIO", "None", "bytes", "raises"}
\* images, texts, args as the caller of generate gives them
Omitted == "omitted"
Collections == {Omitted, "given"}

\* `x or []`, `x or {}` (plugin.py:174)
or_empty(x) == IF x = Omitted THEN "empty" ELSE x

\* Mutant: no handler around the renderer
generate_unguarded(meme, images, texts, args, renderer) ==
    [ result |-> IF renderer = "raises" THEN "raised" ELSE renderer,
      renderer_calls |-> 1,
      passed |-> <<or_empty(images), or_empty(texts), or_empty(args)>> ]

\* MemeManager.generate (plugin.py:172-177)
generate(meme, images, texts, args, renderer) ==
    [ result |-> IF renderer = "raises" THEN "None" ELSE renderer,
      renderer_calls |-> 1,
      passed |-> <<or_empty(images), or_empty(texts), or_empty(args)>> ]

\* the class attributes and globals after an operation that left them as r
SetCatalog(r) ==
    /\ package' = r.package
    /\ get_memes' = r.get_memes
    /\ _instance' = r.instance
    /\ _memes' = r.memes
    /\ _meme_list' = r.meme_list
    /\ is_initialized' = r.is_initialized
    /\ installs' = r.installs

\* -------------------------------------------- operations of the catalog
GetInstance(install, after, load, lib) ==
    /\ installs < MaxInstalls
    /\ LET r == get_instance(CatalogNow, install, after, load, lib) IN
       /\ SetCatalog(r)
       /\ call' = [ op |-> "get_instance", raised |-> r.raised,
                    loaded |-> r.loaded, installed |-> r.installed ]
    /\ UNCHANGED avatar_vars

FindMeme(key) ==
    /\ _instance # None
    /\ call' = [ op |-> "find_meme", key |-> key, raised |-> FALSE,
                 result |-> find_meme(_memes, is_initialized, key) ]
    /\ UNCHANGED <<avatar_vars, package, get_memes, _instance, _memes,
                   _meme_list, is_initialized, installs>>

GetAllMemes ==
    /\ _instance # None
    /\ call' = [ op |-> "get_all_memes", raised |-> FALSE,
                 result |-> get_all_memes(_meme_list, is_initialized) ]
    /\ UNCHANGED <<avatar_vars, package, get_memes, _instance, _memes,
                   _meme_list, is_initialized, installs>>

GetRandomMeme ==
    /\ _instance # None
    /\ \E result \in IF get_random_meme(_meme_list, is_initialized) = {}
                     THEN {NoMeme}
                     ELSE {<<t>> : t \in get_random_meme(_meme_list, is_initialized)} :
           call' = [ op |-> "get_random_meme", raised |-> FALSE,
                     result |-> result ]
    /\ UNCHANGED <<avatar_vars, package, get_memes, _instance, _memes,
                   _meme_list, is_initialized, installs>>

Generate(meme, images, texts, args, renderer) ==
    /\ _instance # None
    /\ LET g == generate(meme, images, texts, args, renderer) IN
       call' = [ op |-> "generate", meme |-> meme, renderer |-> renderer,
                 raised |-> g.result = "raised", result |-> g.result,
                 renderer_calls |-> g.renderer_calls, passed |-> g.passed,
                 given |-> <<images, texts, args>> ]
    /\ UNCHANGED <<avatar_vars, package, get_memes, _instance, _memes,
                   _meme_list, is_initialized, installs>>

\* ------------------------------------------------ commands and actions
\* result.getvalue() on what generate returned, then the reply
\* (plugin.py:250-256, 295-300)
after_generate(op, g, done) ==
    IF g.result = "raised" THEN Faulted(op)
    ELSE IF g.result = "None" THEN Returned(op, FALSE, "generation failed") \* 生成失败
    ELSE IF g.result = "BytesIO" THEN Returned(op, TRUE, done)
    ELSE Faulted(op)

\* MemeMenuCommand.execute after get_instance (plugin.py:199-225)
MemeMenuCommand_execute(r) ==
    IF r.raised THEN Faulted("MemeMenuCommand")
    ELSE IF ~r.is_initialized
    THEN Returned("MemeMenuCommand", FALSE, "not installed")   \* 未安装meme-generator
    ELSE IF get_all_memes(r.meme_list, r.is_initialized) = <<>>
    THEN Returned("MemeMenuCommand", TRUE, "no memes")          \* 无可用表情包
    ELSE Returned("MemeMenuCommand", TRUE, "menu sent")         \* 菜单已发送

\* MemeGenerateCommand.execute after get_instance (plugin.py:235-256)
MemeGenerateCommand_execute(r, meme_key, renderer) ==
    IF r.raised THEN Faulted("MemeGenerateCommand")
    ELSE IF ~r.is_initialized
    THEN Returned("MemeGenerateCommand", FALSE, "not installed")
    ELSE LET meme == find_meme(r.memes, r.is_initialized, meme_key) IN
         IF meme = NoMeme
         THEN Returned("MemeGenerateCommand", FALSE, "not found")   \* 未找到
         ELSE after_generate("MemeGenerateCommand",
                             generate(meme[1], Omitted, "given", Omitted, renderer),
                             "generated")                         \* 已生成

\* AutoMemeAction.execute after get_instance (plugin.py:280-300); meme_key
\* the empty str when action_data has none, picked what random.choice gives
AutoMemeAction_execute(r, meme_key, picked, renderer) ==
    IF r.raised THEN Faulted("AutoMemeAction")
    ELSE IF ~r.is_initialized
    THEN Returned("AutoMemeAction", FALSE, "not installed")
    ELSE LET meme == IF meme_key # <<>>
                     THEN find_meme(r.memes, r.is_initialized, meme_key)
                     ELSE picked
         IN  IF meme = NoMeme
             THEN Returned("AutoMemeAction", FALSE, "no meme available") \* 没有可用的表情包
             ELSE after_generate("AutoMemeAction",
                                 generate(meme[1], Omitted, "given", Omitted, renderer),
                                 "meme sent")                     \* 发送了表情包

\* what the get_instance call of a command or action did
LoadOf(r) == [loaded |-> r.loaded, installed |-> r.installed]

MenuExecute(install, after, load, lib) ==
    /\ installs < MaxInstalls
    /\ LET r == get_instance(CatalogNow, install, after, load, lib) IN
       /\ SetCatalog(r)
       /\ call' = MemeMenuCommand_execute(r) @@ LoadOf(r)
    /\ UNCHANGED avatar_vars

GenerateExecute(install, after, load, lib, meme_key, renderer) ==
    /\ installs < MaxInstalls
    /\ LET r == get_instance(CatalogNow, install, after, load, lib) IN
       /\ SetCatalog(r)
       /\ call' = MemeGenerateCommand_execute(r, meme_key, renderer)
                  @@ LoadOf(r)
    /\ UNCHANGED avatar_vars

AutoExecute(install, after, load, lib, meme_key, renderer) ==
    /\ installs < MaxInstalls
    /\ LET r == get_instance(CatalogNow, install, after, load, lib) IN
       /\ SetCatalog(r)
       /\ \E picked \in IF get_random_meme(r.meme_list, r.is_initialized) = {}
                        THEN {NoMeme}
                        ELSE {<<t>> : t \in get_random_meme(r.meme_list, r.is_initialized)} :
              call' = AutoMemeAction_execute(r, meme_key, picked, renderer)
                      @@ LoadOf(r)
    /\ UNCHANGED avatar_vars

\* AnalyzeAvatarAction.execute without a user id (plugin.py:320-324)
AnalyzeNoUser ==
    /\ call' = Returned("AnalyzeAvatarAction", FALSE, "missing user id") \* 缺少用户ID
    /\ UNCHANGED <<avatar_vars, package, get_memes, _instance, _memes,
                   _meme_list, is_initialized, installs>>

\* what the environment does in a first load; one value when no load runs
Environments ==
    IF _instance # None THEN { <<"ok", "present", "ok", <<>>>> }
    ELSE InstallOutcomes \X Packages \X LoadOutcomes \X Libraries

InitCatalog == AvatarInit /\ \E p \in Packages : CatalogInit(p)

NextCatalog ==
    \/ \E e \in Environments : GetInstance(e[1], e[2], e[3], e[4])
    \/ \E key \in Queries : FindMeme(key)
    \/ GetAllMemes
    \/ GetRandomMeme
    \/ \E i \in DOMAIN _meme_list, images \in Collections, texts \in Collections,
          args \in Collections, renderer \in RendererOutcomes :
           Generate(_meme_list[i], images, texts, args, renderer)
    \/ \E e \in Environments : MenuExecute(e[1], e[2], e[3], e[4])
    \/ \E e \in Environments, meme_key \in Queries, renderer \in RendererOutcomes :
           GenerateExecute(e[1], e[2], e[3], e[4], meme_key, renderer)
    \/ \E e \in Environments, meme_key \in Queries \cup {<<>>},
          renderer \in RendererOutcomes :
           AutoExecute(e[1], e[2], e[3], e[4], meme_key, renderer)
    \/ AnalyzeNoUser

SpecCatalog == InitCatalog /\ [][NextCatalog]_vars

\* ------------------------------------------------------------- claims
\* the descriptions the table holds for a person
StoredDescriptions(rs, person_id) ==
    { rs[i].head_description : i \in {j \in DOMAIN rs : rs[j].person_id = person_id} }

\* the rows the table holds for a person
RowsOf(rs, person_id) == {i \in DOMAIN rs : rs[i].person_id = person_id}

\* the last step began a call of analyze_and_store
IsStart(st) == st.act = "Start"

\* the cache check of the step met a fault of the identity service or of
\* the database
LookupFaulted(st) ==
    Has(st.events, "resolve:raises") \/ Has(st.events, "get:raises")

\* the step is a call that returned (TRUE, d) from the cache check alone,
\* and left the Store and the suspended calls as they were
CacheHitStep(d) ==
    /\ step'.returned /\ ~step'.raised
    /\ step'.ok /\ step'.msg = d
    /\ step'.trace = <<"lookup">>
    /\ rows' = rows /\ last_write' = last_write /\ pending' = pending

C2_ForcedFetches ==
    /\ (IsStart(step) /\ step.force_update)
       => /\ ~step.raised
          /\ step.events \in { <<"fetch:suspended">>, <<"fetch:unsupported">> }
          /\ step.returned => step.trace = <<"fetch", "fetch:none">>
          /\ ~step.returned
             => \E f \in BagToSet(pending) :
                    /\ f.user_id = step.user_id /\ f.platform = step.platform
                    /\ f.force_update /\ f.trace = <<"fetch">>
    /\ \A f \in BagToSet(pending) : f.force_update => f.trace[1] = "fetch"
    /\ (step.returned /\ step.force_update) => step.trace[1] = "fetch"

\* a forced call has gone to the Fetcher although the person's description
\* is cached
C2_Witness ==
    /\ IsStart(step) /\ step.force_update
    /\ Has(step.events, "fetch:suspended")
    /\ \E d \in StoredDescriptions(rows, step.person_id) : Truthy(d)

\* the call returned in the last step, and its Fetcher had returned None
FetcherReturnedNone(st) == st.returned /\ Has(st.trace, "fetch:none")

\* the step called get_avatar_description or set_avatar_description
StoreCalledInStep(st) ==
    \E e \in { "get:hit", "get:miss", "get:raises",
               "set:created", "set:updated", "set:failed" } : Has(st.events, e)

CallActs == {"Start", "FetchDone", "AnalyzeDone"}

\* a fault was raised in steps 2-4 of the call, in the step it returned in:
\* by the HTTP exchange, the model registry, the model request, identity
\* resolution of the Store step, or the Store write
FaultInSteps2To4(st) ==
    \/ Has(st.events, "http:raises")
    \/ Has(st.events, "models:raises")
    \/ Has(st.events, "response:raises")
    \/ Has(st.trace, "store") /\ Has(st.events, "resolve:raises")
    \/ Has(st.events, "set:failed")

\* C4 as stated: no fault leaves analyze_and_store, every call returns a
\* (bool, string) pair, and a fault raised in steps 2-4 makes the bool FALSE.
C4_AsStated ==
    step.act \in CallActs
    => /\ ~step.raised
       /\ step.returned => step.ok \in BOOLEAN /\ Len(step.msg) >= 1
       /\ (step.returned /\ FaultInSteps2To4(step)) => ~step.ok

\* the Describer returned in the last step
DescriberReturned(st) == st.returned /\ Has(st.trace, "describe")

C6_AsStated ==
    DescriberReturned(step)
    => /\ Truthy(step.description)
       /\ ~step.ok => step.msg \in {MSG_STORE_FAILED, MSG_EXCEPTION}

\* C7 as stated: a call for a pair without person identifier whose Fetcher
\* returned bytes ends with (FALSE, "store failed"), the description is not
\* returned and no record is created.
C7_AsStated ==
    ( step.returned /\ step.user_id # None /\ step.person_id = None
      /\ Has(step.trace, "fetch:bytes") )
    => /\ ~step.ok /\ step.msg = MSG_STORE_FAILED
       /\ \A i \in DOMAIN rows : rows[i].user_id # step.user_id

\* the call returned in the last step after creating the person's record: the
\* person had an identity mapping and no record, and the Store write succeeded
FirstAnalysis(st) == st.returned /\ Has(st.events, "set:created")

\* how many times the call went to the Fetcher
FetchCount(trace) == Cardinality({i \in DOMAIN trace : trace[i] = "fetch"})

\* what a first analysis returns and leaves in the Store
FirstAnalysisResult ==
    FirstAnalysis(step')
    => /\ step'.ok /\ Truthy(step'.description)
       /\ step'.msg = step'.description
       /\ Has(step'.trace, "fetch:bytes") /\ FetchCount(step'.trace) = 1
       /\ StoredDescriptions(rows', step'.person_id) = {step'.description}

\* the call that starts right after a first analysis, for the same user and
\* not forced
SecondCall ==
    /\ FirstAnalysis(step) /\ IsStart(step') /\ ~step'.force_update
    /\ step'.user_id = step.user_id /\ step'.platform = step.platform

\* the second call returns what the first returned, without fetching
SecondCallCached ==
    /\ step'.returned /\ ~step'.raised /\ step'.ok
    /\ step'.msg = step.msg /\ FetchCount(step'.trace) = 0
    /\ rows' = rows

C9_UpsertUnique ==
    [][ LET p == step'.person_id IN
        /\ \A i, j \in DOMAIN rows' :
               rows'[i].person_id = rows'[j].person_id => i = j
        /\ Len(rows') >= Len(rows)
        /\ \A i \in DOMAIN rows :
               /\ rows'[i].person_id = rows[i].person_id
               /\ rows[i].person_id # p => rows'[i] = rows[i]
        /\ Has(step'.events, "set:created")
           => /\ RowsOf(rows, p) = {}
              /\ Len(rows') = Len(rows) + 1
              /\ RowsOf(rows', p) = {Len(rows')}
              /\ rows'[Len(rows')].head_description = step'.description
              /\ rows'[Len(rows')].analyzed_at = clock'
        /\ Has(step'.events, "set:updated")
           => /\ Cardinality(RowsOf(rows, p)) = 1
              /\ Len(rows') = Len(rows)
              /\ \A i \in RowsOf(rows', p) :
                     /\ rows'[i].head_description = step'.description
                     /\ rows'[i].analyzed_at = clock'
        /\ Has(step'.events, "set:failed") => rows' = rows ]_vars

\* a record written at time 0 has been written again at time 1, next to
\* another person's record
C9_Witness ==
    /\ step.act = "set_avatar_description" /\ Has(step.events, "set:updated")
    /\ Len(rows) = 2 /\ clock = 1
    /\ \E i \in RowsOf(rows, step.person_id) :
           /\ rows[i].analyzed_at = 1
           /\ rows[i].head_description = step.description
    /\ \E i \in DOMAIN rows : rows[i].analyzed_at = 0

\* C10: when forced calls for one person run interleaved at their awaits,
\* the Store holds exactly one record for that person, and its description
\* is the one of the call whose Store write completed last: at every moment,
\* and so once all of them have returned.
C10_LastWriterWins ==
    \A p \in Persons :
        last_write[p] # NoneText
        => /\ Cardinality(RowsOf(rows, p)) = 1
           /\ \A i \in RowsOf(rows, p) : rows[i].head_description = last_write[p]

\* all calls have returned; the last to write was a forced call during whose
\* run another forced call for the same person had written another
\* description, and the record holds the last one
C10_Witness ==
    /\ pending = EmptyBag
    /\ step.returned /\ step.force_update /\ step.rival
    /\ Has(step.events, "set:updated")
    /\ step.description = <<"a">>
    /\ last_write[step.person_id] = step.description
    /\ \A i \in RowsOf(rows, step.person_id) :
           rows[i].head_description = step.description

\* ------------------------------------------------- claims, the catalog
\* the three states of the catalog
NotLoaded == _instance = None /\ ~is_initialized
Ready == is_initialized
Unavailable == _instance # None /\ ~is_initialized

\* operations that begin with MemeManager.get_instance()
InstanceCallers ==
    {"get_instance", "MemeMenuCommand", "MemeGenerateCommand", "AutoMemeAction"}

\* the step was such an operation and ran _load_memes
LoadAttempted(c) == c.op \in InstanceCallers /\ c.loaded

C12_InstallOnce ==
    /\ installs <= 1
    /\ (call.op \in InstanceCallers /\ call.installed) => installs = 1
    /\ (installs = 1 /\ ~NotLoaded /\ call.op \in InstanceCallers) => ~call.installed \/ call.loaded

\* the install step ran and failed, and a later command found the catalog
\* Unavailable without running it again
C12_Witness ==
    /\ installs = 1 /\ Unavailable /\ package = "absent"
    /\ call.op = "MemeGenerateCommand" /\ ~call.loaded /\ ~call.installed
    /\ call.returned /\ ~call.ok

\* the templates of a list
Members(meme_list) == {meme_list[i] : i \in DOMAIN meme_list}

\* C13: while the catalog is not Ready, find_meme returns None for every
\* query, get_all_memes returns an empty list and get_random_meme returns
\* None, also when a load that faulted left entries in the index; on a Ready
\* catalog without templates get_random_meme returns None, otherwise it
\* returns one of the templates of the list.  None of them raises.
C13_Degrades ==
    /\ ~Ready
       => /\ \A q \in Queries : find_meme(_memes, is_initialized, q) = NoMeme
          /\ get_all_memes(_meme_list, is_initialized) = <<>>
          /\ get_random_meme(_meme_list, is_initialized) = {}
    /\ call.op \in {"find_meme", "get_all_memes", "get_random_meme"}
       => /\ ~call.raised
          /\ ~Ready => call.result = <<>>
    /\ call.op = "get_random_meme"
       => /\ (Ready /\ _meme_list = <<>>) => call.result = NoMeme
          /\ (Ready /\ _meme_list # <<>>)
             => call.result # NoMeme /\ call.result[1] \in Members(_meme_list)

\* the load faulted after doge was indexed; find_meme("dog") returns None
C13_Witness ==
    /\ Unavailable /\ \E i \in DOMAIN _memes : _memes[i][1] = <<"d", "o", "g">>
    /\ call.op = "find_meme" /\ call.key = <<"d", "o", "g">>
    /\ call.result = NoMeme

\* the key and the keywords of a template
NamesOf(t) == {t.key} \cup {t.keywords[i] : i \in DOMAIN t.keywords}

\* the templates of the list, by position, that have the name in some
\* letter case
Claimants(meme_list, name) ==
    { i \in DOMAIN meme_list :
          \E n \in NamesOf(meme_list[i]) : lower(n) = lower(name) }

\* the name as it is, in lower case, and as the queries spell it
Spellings(name) == {name, lower(name)} \cup {q \in Queries : lower(q) = lower(name)}

\* C14 as stated: after a successful load, every key and every keyword of
\* every template, in any letter case, resolves to that template, or to the
\* last loaded of the templates that have that name.
C14_AsStated ==
    Ready
    => \A t \in Members(_meme_list) : \A name \in NamesOf(t) :
       \A q \in Spellings(name) :
           LET c == Claimants(_meme_list, name)
               last == CHOOSE i \in c : \A j \in c : j <= i
           IN  find_meme(_memes, is_initialized, q) = <<_meme_list[last]>>

\* the index entries that a query equals when letter case is ignored
ExactMatches(d, q) == {i \in DOMAIN d : lower(d[i][1]) = lower(q)}

\* C15 as stated: a query that equals an indexed key or alias when letter
\* case is ignored, and is a substring of another indexed key, resolves to the
\* template of the entry it equals.
C15_AsStated ==
    Ready
    => \A q \in Queries :
           ( /\ ExactMatches(_memes, q) # {}
             /\ \E j \in DOMAIN _memes \ ExactMatches(_memes, q) :
                    Contains(lower(q), _memes[j][1]) )
           => \E i \in ExactMatches(_memes, q) :
                  find_meme(_memes, is_initialized, q) = <<_memes[i][2]>>

\* the keys of the index
IndexKeys(d) == {d[i][1] : i \in DOMAIN d}

\* C16: when the lower-case form of a query is a key of the index, the query
\* in any letter case resolves to the template of that entry.
C16_CaseInsensitive ==
    Ready
    => \A q1 \in Queries, q2 \in Queries :
           (lower(q1) = lower(q2) /\ lower(q1) \in IndexKeys(_memes))
           => /\ find_meme(_memes, is_initialized, q1)
                 = find_meme(_memes, is_initialized, q2)
              /\ \E i \in DOMAIN _memes :
                     /\ _memes[i][1] = lower(q1)
                     /\ find_meme(_memes, is_initialized, q1) = <<_memes[i][2]>>

\* find_meme("DOG") has returned doge, which "dog" names
C16_Witness ==
    /\ Ready /\ call.op = "find_meme" /\ call.key = <<"D", "O", "G">>
    /\ call.result = <<doge>>
    /\ find_meme(_memes, is_initialized, <<"d", "o", "g">>) = <<doge>>

\* C17: a query whose lower-case form is no key of the index resolves to the
\* template of the first entry, in the order of the index, whose key contains
\* the lower-case query, and to None when no key contains it.
C17_SubstringFallback ==
    Ready
    => \A q \in Queries \cup {<<"d", "o">>, <<"x", "y", "z">>} :
           lower(q) \notin IndexKeys(_memes)
           => LET hits == {i \in DOMAIN _memes : Contains(lower(q), _memes[i][1])}
              IN  IF hits = {}
                  THEN find_meme(_memes, is_initialized, q) = NoMeme
                  ELSE \E i \in hits :
                           /\ \A j \in hits : i <= j
                           /\ find_meme(_memes, is_initialized, q) = <<_memes[i][2]>>

\* with doge (dog, funny_dog) and cat_meme (cat) loaded, find_meme("do") has
\* returned doge and "xyz" resolves to None
C17_Witness ==
    /\ Ready /\ _meme_list = <<doge, cat_meme>>
    /\ call.op = "find_meme" /\ call.key = <<"d", "o">>
    /\ call.result = <<doge>>
    /\ find_meme(_memes, is_initialized, <<"x", "y", "z">>) = NoMeme

\* C18: generate calls the renderer once, with an empty collection in the
\* place of each of images, texts and args that was omitted, returns what the
\* renderer returns, returns None when the renderer raises, never raises
\* itself, and leaves the catalog as it was.
C18_GenerateGuarded ==
    [][ call'.op = "generate"
        => /\ ~call'.raised
           /\ call'.renderer_calls = 1
           /\ \A k \in 1..3 :
                  call'.passed[k] = IF call'.given[k] = Omitted THEN "empty"
                                    ELSE call'.given[k]
           /\ call'.renderer # "raises" => call'.result = call'.renderer
           /\ call'.renderer = "raises" => call'.result = "None"
           /\ _memes' = _memes /\ _meme_list' = _meme_list
           /\ is_initialized' = is_initialized /\ _instance' = _instance
           /\ get_memes' = get_memes ]_vars

\* the renderer raised in a call that gave only the template: generate
\* returned None
C18_Witness ==
    /\ call.op = "generate" /\ call.renderer = "raises"
    /\ call.given = <<Omitted, Omitted, Omitted>>
    /\ call.passed = <<"empty", "empty", "empty">>
    /\ call.result = "None" /\ ~call.raised /\ Ready

\* the four commands and actions
Surfaces ==
    {"MemeMenuCommand", "MemeGenerateCommand", "AutoMemeAction",
     "AnalyzeAvatarAction"}

\* C19 as stated: in every state of the catalog and for every outcome of the
\* lookup, the renderer and the analysis, execute of each command and action
\* returns a success flag with a message and never raises.
C19_AsStated ==
    call.op \in Surfaces
    => /\ ~call.raised
       /\ call.returned => call.ok \in BOOLEAN /\ call.msg # None

\* C20 as stated: when set_avatar_description reports failure,
\* analyze_and_store returns (FALSE, "store failed"), never (TRUE, description).
C20_AsStated ==
    (step.returned /\ Has(step.events, "set:failed"))
    => ~step.ok /\ step.msg = MSG_STORE_FAILED

\* ------------------------------------------- claims, the pipeline again
\* how many times e occurs in the trace
Count(trace, e) == Cardinality({i \in DOMAIN trace : trace[i] = e})

\* every a of the trace stands before every b
Before(trace, a, b) ==
    \A i \in DOMAIN trace, j \in DOMAIN trace :
        (trace[i] = a /\ trace[j] = b) => i < j

\* what the Fetcher returned, as the trace has it
FetchResults == {"fetch:none", "fetch:empty", "fetch:bytes"}

\* the trace of one call: cache check, Fetcher, Describer with its model
\* request, Store step, each at most once and in this order; the Describer
\* only after the Fetcher returned, the Store step only after the Fetcher
\* returned bytes and the Describer was called
OrderedPipeline(trace) ==
    /\ \A e \in {"lookup", "fetch", "describe", "request", "store"} :
           Count(trace, e) <= 1
    /\ Cardinality({i \in DOMAIN trace : trace[i] \in FetchResults}) <= 1
    /\ Before(trace, "lookup", "fetch")
    /\ \A r \in FetchResults :
           /\ Has(trace, r) => Has(trace, "fetch")
           /\ Before(trace, "fetch", r)
           /\ Before(trace, r, "describe")
    /\ Has(trace, "describe") => Has(trace, "fetch:bytes")
    /\ Before(trace, "describe", "request")
    /\ Has(trace, "request") => Has(trace, "describe")
    /\ Before(trace, "describe", "store") /\ Before(trace, "request", "store")
    /\ Has(trace, "store") => Has(trace, "fetch:bytes") /\ Has(trace, "describe")
    /\ \A i \in DOMAIN trace : trace[i] = "store" => i = Len(trace)

\* the step read the Store, the step wrote the Store
StoreReadInStep(st) ==
    \E e \in {"get:hit", "get:miss", "get:raises"} : Has(st.events, e)
StoreWriteInStep(st) ==
    \E e \in {"set:created", "set:updated", "set:failed"} : Has(st.events, e)

\* C21: within one call the steps come in the order Store read (only when
\* the call is not forced), Fetcher, Describer, Store write; the Fetcher is
\* called at most once and the model request issued at most once; a Store
\* write happens only after the Fetcher returned bytes and the Describer
\* returned its description in that call.
C21_PipelineOrder ==
    /\ \A f \in BagToSet(pending) :
           /\ OrderedPipeline(f.trace)
           /\ f.force_update => ~Has(f.trace, "lookup")
           /\ ~Has(f.trace, "store")
    /\ (step.returned \/ step.raised)
       => /\ OrderedPipeline(step.trace)
          /\ step.force_update => ~Has(step.trace, "lookup")
    /\ StoreReadInStep(step)
       => /\ step.act = "Start" /\ ~step.force_update
          /\ ~StoreWriteInStep(step)
    /\ StoreWriteInStep(step)
       => /\ step.returned /\ Has(step.trace, "store")
          /\ Has(step.trace, "fetch:bytes") /\ Has(step.trace, "describe")
          /\ step.description # NoneText /\ step.description # Raised

\* a call that was not forced went through all four steps and created the
\* person's record
C21_Witness ==
    /\ step.returned /\ ~step.force_update
    /\ step.trace = <<"lookup", "fetch", "fetch:bytes", "describe", "request",
                      "store">>
    /\ Has(step.events, "set:created")

\* the call returned in the last step; its Fetcher had returned bytes, the
\* vision model was unconfigured or faulted, and the user has a person
\* identifier that the Store step resolved
FallbackAnalysis(st) ==
    /\ st.returned /\ Has(st.trace, "fetch:bytes")
    /\ \E e \in {"models:empty", "models:raises", "response:raises"} :
           Has(st.events, e)
    /\ st.person_id # None /\ ~Has(st.events, "resolve:raises")

\* the fallback is returned and is the person's stored description
FallbackStored ==
    /\ step'.ok /\ step'.msg = DEFAULT_DESCRIPTION
    /\ StoredDescriptions(rows', step'.person_id) = {DEFAULT_DESCRIPTION}

\* the call returns the cached fallback at once: no Fetcher, no Describer
FallbackServed ==
    /\ step'.returned /\ ~step'.raised
    /\ step'.ok /\ step'.msg = DEFAULT_DESCRIPTION
    /\ step'.trace = <<"lookup">>
    /\ \A e \in DOMAIN step'.events :
           step'.events[e] \in {"resolve:ok", "get:hit"}
    /\ rows' = rows /\ pending' = pending

SeedDescriptions == {NoneText, <<>>}
SeedStores ==
    {<<>>} \cup { <<NewRecord(0, "p1", "qq", "u1", d, None)>> : d \in SeedDescriptions }

InitSeeded ==
    /\ rows \in SeedStores
    /\ clock = 0
    /\ pending = EmptyBag
    /\ step = StepOf("Init", None, None, FALSE, FALSE, <<>>)
    /\ last_write = [p \in Persons |-> NoneText]
    /\ CatalogInit("absent")

\* analyze_and_store called again and again on such a table, each call
\* awaited before the next one starts
NextSeeded == Next /\ BagCardinality(pending') <= 1

SpecSeeded == InitSeeded /\ [][NextSeeded]_vars

\* a description that is neither None nor the empty string
HasText(d) == d # NoneText /\ Len(d) > 0

\* the records of the table all have a description that is not empty
AllDescribed(rs) == \A i \in DOMAIN rs : HasText(rs[i].head_description)

\* the person of the call has a record, and its description is None or empty
RecordWithoutDescription(rs, person_id) ==
    /\ RowsOf(rs, person_id) # {}
    /\ \A i \in RowsOf(rs, person_id) : ~HasText(rs[i].head_description)

\* C23: every record that analyze_and_store writes has a description that is
\* not empty, so a Store that starts empty, or with described records only,
\* never holds a record without one; and a call with force_update = FALSE
\* for a person whose record has a None or empty description takes it as a
\* miss and goes to the Fetcher.
C23_NonEmptyRecords ==
    [][ /\ \A i \in DOMAIN rows' :
               (i \notin DOMAIN rows \/ rows'[i] # rows[i])
               => /\ HasText(rows'[i].head_description)
                  /\ StoreWriteInStep(step')
                  /\ rows'[i].head_description = step'.description
        /\ (rows = <<>> \/ AllDescribed(rows)) => AllDescribed(rows')
        /\ ( IsStart(step') /\ ~step'.force_update
             /\ RecordWithoutDescription(rows, step'.person_id) )
           => /\ ~(step'.returned /\ step'.ok)
              /\ Has(step'.events, "fetch:suspended")
                 \/ Has(step'.events, "fetch:unsupported")
              /\ ~LookupFaulted(step') => Has(step'.events, "get:miss") ]_vars

\* a call for qq/u1, not forced, found the record without description, went
\* to the Fetcher and has now written a description into that record
C23_Witness ==
    /\ step.returned /\ ~step.force_update /\ step.ok
    /\ step.trace = <<"lookup", "fetch", "fetch:bytes", "describe", "request",
                      "store">>
    /\ Has(step.events, "set:updated")
    /\ Len(rows) = 1 /\ rows[1].head_description = <<"a">>
    /\ last_write["p1"] = <<"a">>

====
